---- MODULE Spec2Model ----
(***************************************************************************)
(* Quality assessment of solar irradiance data                             *)
(* (content/_build/jupyter_execute/notebooks/quality_asessment.py).        *)
(*                                                                         *)
(* The notebook is a sequence of cells run top to bottom over one pandas   *)
(* DataFrame df.  Each code cell is one action.  float64 columns are       *)
(* modelled in decimal fixed point with four digits (Scale = 10^4), with   *)
(* NaN, +/-inf and "nonzero but below the resolution" kept apart, because  *)
(* np.cos(np.deg2rad(90)) is 6.1e-17 and not 0.                            *)
(***************************************************************************)
EXTENDS Integers, Sequences, FiniteSets, TLC

VARIABLES
    pc,                 \* the next cell of the notebook to run
    index,              \* df.index: the row labels
    df,                 \* df: column name -> (row label -> float)
    df_limits,          \* df_limits: column name -> (row label -> float)
    extra_radiation,    \* what pvlib.irradiance.get_extra_radiation returns per row
    limits_plot,        \* rows handed to the limit scatter plots
    kt_plot,            \* rows handed to the K_t scatter plot
    closure_plot,       \* rows handed to the sumsw_ratio scatter plot
    original_entries,   \* original_entries = df.shape[0] after read_csv
    missing_rows_added, \* the share printed as 'Missing rows added', in percent
    coord,              \* ground_measurements: the string handed to convert_latitude_longitude
    coord_result,       \* ground_measurements: what the call gave
    df_ref,             \* manipulating_time_series: the row of the reference dataset
    built               \* manipulating_time_series: the index each section has built

\* The frame and what the quality assessment cells derive from it.
qc_vars == <<index, df, df_limits, extra_radiation, limits_plot, kt_plot, closure_plot>>

\* The state of the missing-data cell.
asfreq_vars == <<original_entries, missing_rows_added>>

\* The state of the station-table conversion.
coord_vars == <<coord, coord_result>>

\* The state of the time-series sections.
time_vars == <<df_ref, built>>

vars == <<pc, index, df, df_limits, extra_radiation, limits_plot, kt_plot, closure_plot,
          original_entries, missing_rows_added, coord, coord_result, df_ref, built>>

----------------------------------------------------------------------------
(* float64 values                                                          *)

Scale == 10^4

\* A finite value v / Scale.  u is the sign of a nonzero part below the
\* resolution; it is kept only when v = 0.
Fin(v) == [k |-> "fin", v |-> v, u |-> 0]
Tiny(s) == [k |-> "fin", v |-> 0, u |-> s]
NaN == [k |-> "nan", v |-> 0, u |-> 0]
Inf(s) == [k |-> "inf", v |-> s, u |-> 0]

\* The literal num/den, e.g. Lit(95, 100) for 0.95.
Lit(num, den) == Fin((num * Scale) \div den)

IsNaN(x) == x.k = "nan"
IsFinite(x) == x.k = "fin"

Abs(n) == IF n < 0 THEN -n ELSE n
Sgn(n) == IF n > 0 THEN 1 ELSE IF n < 0 THEN -1 ELSE 0

\* Sign of a float that is not NaN.
FSign(x) == IF x.k = "inf" THEN x.v ELSE IF x.v # 0 THEN Sgn(x.v) ELSE x.u

\* |a| * |b| / Scale rounded to nearest, without leaving 32 bits.
MulFix(a, b) ==
    LET A1 == Abs(a) \div Scale
        A0 == Abs(a) % Scale
        B1 == Abs(b) \div Scale
        B0 == Abs(b) % Scale
    IN  A1 * B1 * Scale + A1 * B0 + A0 * B1 + (A0 * B0 + Scale \div 2) \div Scale

\* The first n decimal digits of r / b, for 0 <= r < b.
RECURSIVE FracDigits(_, _, _)
FracDigits(r, b, n) ==
    IF n = 0 THEN 0
    ELSE LET d == (r * 10) \div b
             r2 == (r * 10) % b
         IN  d * 10^(n - 1) + FracDigits(r2, b, n - 1)

\* |a| / |b| * Scale rounded to nearest, b # 0.
DivFix(a, b) ==
    LET A == Abs(a)
        B == Abs(b)
    IN  (A \div B) * Scale + (FracDigits(A % B, B, 5) + 5) \div 10

FAdd(x, y) ==
    IF IsNaN(x) \/ IsNaN(y) THEN NaN
    ELSE IF x.k = "inf" /\ y.k = "inf" THEN (IF x.v = y.v THEN x ELSE NaN)
    ELSE IF x.k = "inf" THEN x
    ELSE IF y.k = "inf" THEN y
    ELSE IF x.v + y.v # 0 THEN Fin(x.v + y.v)
    ELSE IF x.v # 0 THEN Fin(0)
    ELSE Tiny(Sgn(x.u + y.u))

FMul(x, y) ==
    IF IsNaN(x) \/ IsNaN(y) THEN NaN
    ELSE IF FSign(x) = 0 \/ FSign(y) = 0
         THEN (IF x.k = "inf" \/ y.k = "inf" THEN NaN ELSE Fin(0))
    ELSE IF x.k = "inf" \/ y.k = "inf" THEN Inf(FSign(x) * FSign(y))
    ELSE LET m == MulFix(x.v, y.v)
         IN  IF m = 0 THEN Tiny(FSign(x) * FSign(y))
             ELSE Fin(FSign(x) * FSign(y) * m)

\* Division as Python scalars do it: a zero divisor raises ZeroDivisionError;
\* the value is marked as raised.
FDiv_Raising(x, y) ==
    IF IsNaN(x) \/ IsNaN(y) THEN NaN
    ELSE IF y.k = "inf" THEN (IF x.k = "inf" THEN NaN ELSE Fin(0))
    ELSE IF FSign(y) = 0 THEN [k |-> "raise", v |-> 0, u |-> 0]
    ELSE IF x.k = "inf" THEN Inf(FSign(x) * FSign(y))
    ELSE IF FSign(x) = 0 THEN Fin(0)
    ELSE IF y.v = 0 THEN (IF x.v = 0 THEN NaN ELSE Inf(FSign(x) * FSign(y)))
    ELSE LET q == DivFix(x.v, y.v)
         IN  IF q = 0 THEN Tiny(FSign(x) * FSign(y))
             ELSE Fin(FSign(x) * FSign(y) * q)

\* float64 division as numpy does it: x/0 is +/-inf, 0/0 is NaN, no exception.
\* A finite value over one below the resolution leaves the fixed-point range
\* (above 1e12 in float64) and is carried as an infinity of that sign.
FDiv(x, y) ==
    IF IsNaN(x) \/ IsNaN(y) THEN NaN
    ELSE IF y.k = "inf" THEN (IF x.k = "inf" THEN NaN ELSE Fin(0))
    ELSE IF FSign(y) = 0 THEN (IF FSign(x) = 0 THEN NaN ELSE Inf(FSign(x)))
    ELSE IF x.k = "inf" THEN Inf(FSign(x) * FSign(y))
    ELSE IF FSign(x) = 0 THEN Fin(0)
    ELSE IF y.v = 0 THEN (IF x.v = 0 THEN NaN ELSE Inf(FSign(x) * FSign(y)))
    ELSE LET q == DivFix(x.v, y.v)
         IN  IF q = 0 THEN Tiny(FSign(x) * FSign(y))
             ELSE Fin(FSign(x) * FSign(y) * q)

\* Comparisons: every comparison with NaN is False.
FLt(x, y) ==
    /\ ~IsNaN(x)
    /\ ~IsNaN(y)
    /\ IF x.k = "inf" THEN x.v = -1 /\ ~(y.k = "inf" /\ y.v = -1)
       ELSE IF y.k = "inf" THEN y.v = 1
       ELSE x.v < y.v \/ (x.v = y.v /\ x.u < y.u)

FGt(x, y) == FLt(y, x)
FLe(x, y) == ~IsNaN(x) /\ ~IsNaN(y) /\ ~FLt(y, x)
FGe(x, y) == FLe(y, x)

----------------------------------------------------------------------------
(* numpy functions used by the notebook, tabulated on the inputs drawn     *)

\* np.cos(np.deg2rad(z)) to four decimals, on the zenith angles (whole
\* degrees) the samples are drawn from; 200, 270 and 300 lie outside
\* [0, 180].  cos(90 deg) = 6.1e-17 and cos(270 deg) = -1.8e-16 in float64.
CosDeg ==
    (0 :> Fin(10000)) @@ (60 :> Fin(5000)) @@ (75 :> Fin(2588)) @@
    (80 :> Fin(1736)) @@ (90 :> Tiny(1)) @@ (91 :> Fin(-175)) @@
    (92 :> Fin(-349)) @@ (93 :> Fin(-523)) @@ (94 :> Fin(-698)) @@
    (120 :> Fin(-5000)) @@ (180 :> Fin(-10000)) @@ (200 :> Fin(-9397)) @@
    (270 :> Tiny(-1)) @@ (300 :> Fin(5000))

\* np.cos(np.deg2rad(x)) of a column value in degrees.
FCosDeg(x) == IF IsNaN(x) THEN NaN ELSE CosDeg[x.v \div Scale]

\* A clip that puts the lower bound in place of NaN, as max(lo, x) would.
FClipLower_NaNToLower(x, lo) == IF IsNaN(x) \/ FLt(x, lo) THEN lo ELSE x

\* Series.clip(lower=lo): NaN stays NaN.
FClipLower(x, lo) == IF IsNaN(x) THEN NaN ELSE IF FLt(x, lo) THEN lo ELSE x

\* x ** 1.2 on the values mu0 takes.  (6.1e-17) ** 1.2 = 3.5e-20; a negative
\* base gives nan.
Pow12(x) ==
    IF IsNaN(x) \/ FSign(x) < 0 THEN NaN
    ELSE IF x.v = 0 THEN x
    ELSE Fin(((10000 :> 10000) @@ (5000 :> 4353) @@ (2588 :> 1975) @@ (1736 :> 1224))[x.v])

\* x ** 0.2 with 0 ** 0.2 taken as 1.
Pow02_ZeroIsOne(x) ==
    IF IsNaN(x) \/ FSign(x) < 0 THEN NaN
    ELSE IF x.v = 0 THEN (IF x.u = 0 THEN Fin(Scale) ELSE Fin(6))
    ELSE Fin(((10000 :> 10000) @@ (5000 :> 8706) @@ (2588 :> 7631) @@ (1736 :> 7046))[x.v])

\* x ** 0.2 on the values mu0 takes.  0.0 ** 0.2 = 0.0 and
\* (6.1e-17) ** 0.2 = 0.000572; a negative base gives nan.
Pow02(x) ==
    IF IsNaN(x) \/ FSign(x) < 0 THEN NaN
    ELSE IF x.v = 0 THEN (IF x.u = 0 THEN Fin(0) ELSE Fin(6))
    ELSE Fin(((10000 :> 10000) @@ (5000 :> 8706) @@ (2588 :> 7631) @@ (1736 :> 7046))[x.v])

----------------------------------------------------------------------------
(* DataFrames                                                              *)

NoFrame == [c \in {} |-> 0]

\* frame[name] = col
SetCol(frame, name, col) ==
    [c \in DOMAIN frame \cup {name} |-> IF c = name THEN col ELSE frame[c]]

Component == {"GHI", "DHI", "DNI"}

----------------------------------------------------------------------------
(* The samples the frame is loaded with                                    *)

MaxSaStep == 3

\* Extraterrestrial radiation: 0, 100, ... W/m2 and the solar constant.
SaValues == {Lit(100 * s, 1) : s \in 0..MaxSaStep} \cup {Lit(1361, 1)}

\* Samples around the one-component limits.
LimitSamples ==
    [ghi : {Lit(g, 1) : g \in {-5, -4, -2, 0, 50, 100, 2000}},
     dhi : {Lit(d, 1) : d \in {-4, -2, 0, 30, 50}},
     dni : {Lit(n, 1) : n \in {-2, 0, 10, 50, 100}},
     zenith : {Lit(z, 1) : z \in {0, 60, 90, 91, 120, 180, 200, 270, 300}},
     sa : SaValues]

\* Samples around the comparison tests.
CompareSamples ==
    [ghi : {Lit(g, 1) : g \in {50, 60, 85, 92, 100, 108, 115, 120}},
     dhi : {Lit(d, 1) : d \in {0, 30, 50, 100, 105, 110}},
     dni : {Lit(n, 1) : n \in {0, 100}},
     zenith : {Lit(z, 1) : z \in {60, 75, 80, 90, 92, 93, 94}},
     sa : {Lit(1361, 1)}]

Samples == LimitSamples \cup CompareSamples

\* df = pd.read_csv(...): the frame holds the rows given, one sample each,
\* already at a one-minute frequency (asfreq adds no row).
Load(rows) ==
    /\ pc = "limits"
    /\ index = DOMAIN rows
    /\ df = [c \in Component \cup {"zenith"} |->
                [i \in DOMAIN rows |->
                    CASE c = "GHI" -> rows[i].ghi
                      [] c = "DHI" -> rows[i].dhi
                      [] c = "DNI" -> rows[i].dni
                      [] c = "zenith" -> rows[i].zenith]]
    /\ extra_radiation = [i \in DOMAIN rows |-> rows[i].sa]
    /\ df_limits = NoFrame
    /\ limits_plot = {}
    /\ kt_plot = {}
    /\ closure_plot = {}
    /\ original_entries = Cardinality(DOMAIN rows)
    /\ missing_rows_added = Fin(0)
    /\ coord = <<>>
    /\ coord_result = [kind |-> "pending"]
    /\ df_ref = <<>>
    /\ built = <<>>

Init == \E s \in Samples : Load([i \in {1} |-> s])

\* Samples for frames with a missing value.
GapSamples ==
    [ghi : {Lit(g, 1) : g \in {0, 60, 100}},
     dhi : {Lit(d, 1) : d \in {30, 50}},
     dni : {Lit(n, 1) : n \in {0, 100}},
     zenith : {Lit(z, 1) : z \in {60, 80, 92, 120}},
     sa : {Lit(1361, 1)}]

\* The inputs read from the file.
Inputs == {"ghi", "dhi", "dni", "zenith"}

\* The sample with one input missing: read_csv gives NaN for an empty field.
Missing(s, f) == [s EXCEPT ![f] = NaN]

\* A frame of two rows: a sample, and the same sample with one input missing.
InitNaN == \E s \in GapSamples : \E f \in Inputs : Load(<<s, Missing(s, f)>>)

\* Samples for frames of several rows.
SeriesSamples ==
    [ghi : {Lit(g, 1) : g \in {60, 85}},
     dhi : {Lit(d, 1) : d \in {30, 110}},
     dni : {Lit(100, 1)},
     zenith : {Lit(z, 1) : z \in {60, 80, 94}},
     sa : {Lit(1361, 1)}]

\* The longest series.
MaxRows == 2

\* A series of one to MaxRows rows, the samples in any order.
InitSeries ==
    \E n \in 1..MaxRows : \E rows \in [1..n -> SeriesSamples] : Load(rows)

----------------------------------------------------------------------------
(* The cells                                                               *)

\* mu0 without the clip.
Mu0_Unclipped(zenith) == FCosDeg(zenith)

\* df['mu0'] = np.cos(np.deg2rad(df['zenith'])).clip(lower=0)
Mu0(zenith) == FClipLower(FCosDeg(zenith), Fin(0))

\* coef * df['extra_radiation'] * df['mu0']**1.2 + offset
Limit12(coef, sa, mu0, offset) == FAdd(FMul(FMul(coef, sa), Pow12(mu0)), offset)

\* coef * df['extra_radiation'] * df['mu0']**0.2 + offset
Limit02(coef, sa, mu0, offset) == FAdd(FMul(FMul(coef, sa), Pow02(mu0)), offset)

ppl_upper_GHI(sa, mu0) == Limit12(Lit(15, 10), sa, mu0, Lit(100, 1))
\* ppl_upper_DHI with the digits of its coefficient transposed (0.59).
ppl_upper_DHI_Transposed(sa, mu0) == Limit12(Lit(59, 100), sa, mu0, Lit(50, 1))

ppl_upper_DHI(sa, mu0) == Limit12(Lit(95, 100), sa, mu0, Lit(50, 1))
ppl_upper_DNI(sa, mu0) == FMul(Lit(1, 1), sa)
\* erl_upper_GHI with the coefficient of the PPL limit (1.5).
erl_upper_GHI_Coeff15(sa, mu0) == Limit12(Lit(15, 10), sa, mu0, Lit(50, 1))

erl_upper_GHI(sa, mu0) == Limit12(Lit(12, 10), sa, mu0, Lit(50, 1))
\* erl_upper_DHI with its offset left out.
erl_upper_DHI_NoOffset(sa, mu0) == FMul(FMul(Lit(75, 100), sa), Pow12(mu0))

erl_upper_DHI(sa, mu0) == Limit12(Lit(75, 100), sa, mu0, Lit(30, 1))
\* erl_upper_DNI with the offset of the line above it (30).
erl_upper_DNI_Offset30(sa, mu0) == Limit02(Lit(95, 100), sa, mu0, Lit(30, 1))

erl_upper_DNI(sa, mu0) == Limit02(Lit(95, 100), sa, mu0, Lit(10, 1))

LimitCols ==
    {"ppl_upper_GHI", "ppl_upper_DHI", "ppl_upper_DNI",
     "erl_upper_GHI", "erl_upper_DHI", "erl_upper_DNI"}

LimitOf(col, sa, mu0) ==
    CASE col = "ppl_upper_GHI" -> ppl_upper_GHI(sa, mu0)
      [] col = "ppl_upper_DHI" -> ppl_upper_DHI(sa, mu0)
      [] col = "ppl_upper_DNI" -> ppl_upper_DNI(sa, mu0)
      [] col = "erl_upper_GHI" -> erl_upper_GHI(sa, mu0)
      [] col = "erl_upper_DHI" -> erl_upper_DHI(sa, mu0)
      [] col = "erl_upper_DNI" -> erl_upper_DNI(sa, mu0)

\* The cell computing extra_radiation, mu0 and df_limits, for every row.
ComputeLimits ==
    /\ pc = "limits"
    /\ LET mu0 == [i \in index |-> Mu0(df["zenith"][i])]
       IN  /\ df' = SetCol(SetCol(df, "extra_radiation", extra_radiation), "mu0", mu0)
           /\ df_limits' =
                [c \in {"zenith"} \cup LimitCols |->
                    [i \in index |->
                        IF c = "zenith" THEN df["zenith"][i]
                        ELSE LimitOf(c, extra_radiation[i], mu0[i])]]
    /\ pc' = "plot_limits"
    /\ UNCHANGED <<index, extra_radiation, limits_plot, kt_plot, closure_plot>>
    /\ UNCHANGED <<asfreq_vars, coord_vars, time_vars>>

\* The selection of the limit plots: df_limits[df_limits['zenith']<90]
LimitsSelected(zenith) == FLt(zenith, Lit(90, 1))

\* The cell plotting measured data and limits.
PlotLimits ==
    /\ pc = "plot_limits"
    /\ limits_plot' = {i \in index : LimitsSelected(df_limits["zenith"][i])}
    /\ pc' = "diffuse"
    /\ UNCHANGED <<index, df, df_limits, extra_radiation, kt_plot, closure_plot>>
    /\ UNCHANGED <<asfreq_vars, coord_vars, time_vars>>

\* The K_t mask with >= for >.
MaskKt_Inclusive(zenith, kt) == IF FGe(zenith, Lit(93, 1)) THEN NaN ELSE kt

\* df.loc[df['zenith']>93, 'K_t'] = np.nan
MaskKt(zenith, kt) == IF FGt(zenith, Lit(93, 1)) THEN NaN ELSE kt

\* The K_t selection with >= for >.
KtSelected_Inclusive(ghi) == FGe(ghi, Lit(50, 1))

\* The selection of the K_t plot: df[df['GHI']>50]
KtSelected(ghi) == FGt(ghi, Lit(50, 1))

\* The cell computing and plotting the diffuse ratio.
\* The diffuse cell masking GHI along with K_t:
\* df.loc[df['zenith']>93, ['K_t', 'GHI']] = np.nan
DiffuseRatio_MasksGhi ==
    /\ pc = "diffuse"
    /\ df' = SetCol(SetCol(df, "K_t",
                [i \in index |-> MaskKt(df["zenith"][i], FDiv(df["DHI"][i], df["GHI"][i]))]),
                "GHI", [i \in index |-> MaskKt(df["zenith"][i], df["GHI"][i])])
    /\ kt_plot' = {i \in index : KtSelected(df["GHI"][i])}
    /\ pc' = "closure"
    /\ UNCHANGED <<index, df_limits, extra_radiation, limits_plot, closure_plot>>
    /\ UNCHANGED <<asfreq_vars, coord_vars, time_vars>>

\* The diffuse cell dividing by the GHI of the row before (df['GHI'].shift(1)):
\* the first row has no row before it and gets NaN.
DiffuseRatio_Shifted ==
    /\ pc = "diffuse"
    /\ df' = SetCol(df, "K_t",
                [i \in index |->
                    MaskKt(df["zenith"][i],
                           FDiv(df["DHI"][i],
                                IF i - 1 \in index THEN df["GHI"][i - 1] ELSE NaN))])
    /\ kt_plot' = {i \in index : KtSelected(df["GHI"][i])}
    /\ pc' = "closure"
    /\ UNCHANGED <<index, df_limits, extra_radiation, limits_plot, closure_plot>>
    /\ UNCHANGED <<asfreq_vars, coord_vars, time_vars>>

DiffuseRatio ==
    /\ pc = "diffuse"
    /\ df' = SetCol(df, "K_t",
                [i \in index |-> MaskKt(df["zenith"][i], FDiv(df["DHI"][i], df["GHI"][i]))])
    /\ kt_plot' = {i \in index : KtSelected(df["GHI"][i])}
    /\ pc' = "closure"
    /\ UNCHANGED <<index, df_limits, extra_radiation, limits_plot, closure_plot>>
    /\ UNCHANGED <<asfreq_vars, coord_vars, time_vars>>

\* sumsw with the clipped cosine mu0 in place of the cosine.
Sumsw_Clipped(dhi, dni, zenith) == FAdd(dhi, FMul(dni, Mu0(zenith)))

\* sumsw with DNI not projected on the horizontal.
Sumsw_NoCos(dhi, dni, zenith) == FAdd(dhi, dni)

\* df['sumsw'] = df['DHI'] + df['DNI']*np.cos(np.deg2rad(df['zenith']))
Sumsw(dhi, dni, zenith) == FAdd(dhi, FMul(dni, FCosDeg(zenith)))

\* The selection of the closure plot: (df['zenith']<93)&(df['GHI']>50)
ClosureSelected(zenith, ghi) == FLt(zenith, Lit(93, 1)) /\ FGt(ghi, Lit(50, 1))

\* The cell computing and plotting the closure ratio.
\* The closure cell adding to the sumsw column left by an earlier run
\* (df['sumsw'] += ...) instead of assigning it.
ClosureEquation_Accumulate ==
    /\ pc = "closure"
    /\ LET sumsw == [i \in index |->
                        FAdd(IF "sumsw" \in DOMAIN df THEN df["sumsw"][i] ELSE Fin(0),
                             Sumsw(df["DHI"][i], df["DNI"][i], df["zenith"][i]))]
       IN  df' = SetCol(SetCol(df, "sumsw", sumsw), "sumsw_ratio",
                    [i \in index |-> FDiv(df["GHI"][i], sumsw[i])])
    /\ closure_plot' = {i \in index : ClosureSelected(df["zenith"][i], df["GHI"][i])}
    /\ pc' = "done"
    /\ UNCHANGED <<index, df_limits, extra_radiation, limits_plot, kt_plot>>
    /\ UNCHANGED <<asfreq_vars, coord_vars, time_vars>>

ClosureEquation ==
    /\ pc = "closure"
    /\ LET sumsw == [i \in index |-> Sumsw(df["DHI"][i], df["DNI"][i], df["zenith"][i])]
       IN  df' = SetCol(SetCol(df, "sumsw", sumsw), "sumsw_ratio",
                    [i \in index |-> FDiv(df["GHI"][i], sumsw[i])])
    /\ closure_plot' = {i \in index : ClosureSelected(df["zenith"][i], df["GHI"][i])}
    /\ pc' = "done"
    /\ UNCHANGED <<index, df_limits, extra_radiation, limits_plot, kt_plot>>
    /\ UNCHANGED <<asfreq_vars, coord_vars, time_vars>>

Next == ComputeLimits \/ PlotLimits \/ DiffuseRatio \/ ClosureEquation

Spec == Init /\ [][Next]_vars

\* The cells from the limits on are run again on the frame as it stands.
ReRun ==
    /\ pc = "done"
    /\ pc' = "limits"
    /\ UNCHANGED <<qc_vars, asfreq_vars, coord_vars, time_vars>>

NextRerun == Next \/ ReRun

SpecRerun == Init /\ [][NextRerun]_vars

\* The same cells on frames of several rows.
SpecSeries == InitSeries /\ [][Next]_vars

\* The same cells on frames with a missing value.
SpecNaN == InitNaN /\ [][Next]_vars

----------------------------------------------------------------------------
(* The tests the cells document and draw                                   *)

PPL_LOWER == -4
ERL_LOWER == -2

PplCol(c) ==
    CASE c = "GHI" -> "ppl_upper_GHI" [] c = "DHI" -> "ppl_upper_DHI" [] c = "DNI" -> "ppl_upper_DNI"

ErlCol(c) ==
    CASE c = "GHI" -> "erl_upper_GHI" [] c = "DHI" -> "erl_upper_DHI" [] c = "DNI" -> "erl_upper_DNI"

\* The physical possible limits test with <= for <.
PplPass_Inclusive(i, c) ==
    /\ FLe(Lit(PPL_LOWER, 1), df[c][i])
    /\ FLe(df[c][i], df_limits[PplCol(c)][i])

\* Physical possible limits:  -4 W/m2 < value < upper limit.
PplPass(i, c) ==
    /\ FLt(Lit(PPL_LOWER, 1), df[c][i])
    /\ FLt(df[c][i], df_limits[PplCol(c)][i])

\* The ERL test with a lower bound of -5 W/m2, below that of the PPL test.
ErlPass_LowerMinus5(i, c) ==
    /\ FLt(Lit(-5, 1), df[c][i])
    /\ FLt(df[c][i], df_limits[ErlCol(c)][i])

\* Extremely rare limits:  -2 W/m2 < value < upper limit.
ErlPass(i, c) ==
    /\ FLt(Lit(ERL_LOWER, 1), df[c][i])
    /\ FLt(df[c][i], df_limits[ErlCol(c)][i])

\* The red lines, ax.plot(xs, ys, c='r'), in degrees and ratio units.
KtLine ==
    [xs |-> <<Lit(0, 1).v, Lit(75, 1).v, Lit(75, 1).v, Lit(93, 1).v>>,
     ys |-> <<Lit(105, 100).v, Lit(105, 100).v, Lit(110, 100).v, Lit(110, 100).v>>]

ClosureUpperLine ==
    [xs |-> <<Lit(0, 1).v, Lit(75, 1).v, Lit(75, 1).v, Lit(93, 1).v>>,
     ys |-> <<Lit(108, 100).v, Lit(108, 100).v, Lit(115, 100).v, Lit(115, 100).v>>]

\* The lower closure line with its two levels exchanged.
ClosureLowerLine_Swapped ==
    [xs |-> <<Lit(0, 1).v, Lit(75, 1).v, Lit(75, 1).v, Lit(93, 1).v>>,
     ys |-> <<Lit(85, 100).v, Lit(85, 100).v, Lit(92, 100).v, Lit(92, 100).v>>]

ClosureLowerLine ==
    [xs |-> <<Lit(0, 1).v, Lit(75, 1).v, Lit(75, 1).v, Lit(93, 1).v>>,
     ys |-> <<Lit(92, 100).v, Lit(92, 100).v, Lit(85, 100).v, Lit(85, 100).v>>]

\* The heights at which a drawn line passes x = z: one per segment that
\* covers z, the two ends of a vertical segment at z.
LineYs(line, z) ==
    UNION { IF line.xs[s] = line.xs[s + 1]
            THEN (IF z = line.xs[s] THEN {line.ys[s], line.ys[s + 1]} ELSE {})
            ELSE IF line.xs[s] <= z /\ z <= line.xs[s + 1]
            THEN {line.ys[s] + ((line.ys[s + 1] - line.ys[s]) * (z - line.xs[s]))
                                  \div (line.xs[s + 1] - line.xs[s])}
            ELSE {}
          : s \in 1..(Len(line.xs) - 1) }

\* The point (x, y) lies strictly below / above the line (0.92 < ratio < 1.08
\* is strict): it is on no part of the line.
StrictlyBelow(line, x, y) ==
    /\ IsFinite(x)
    /\ LineYs(line, x.v) # {}
    /\ \A h \in LineYs(line, x.v) : FLt(y, Fin(h))

StrictlyAbove(line, x, y) ==
    /\ IsFinite(x)
    /\ LineYs(line, x.v) # {}
    /\ \A h \in LineYs(line, x.v) : FGt(y, Fin(h))

\* A scatter plot leaves out a point with a NaN coordinate: the point is
\* neither inside nor outside the lines.
Drawn(x, y) == ~IsNaN(x) /\ ~IsNaN(y)

\* PPL and ERL tests of a component: no verdict when the value or its limit is
\* NaN.
PplVerdict(i, c) ==
    IF ~Drawn(df[c][i], df_limits[PplCol(c)][i]) THEN "nan"
    ELSE IF PplPass(i, c) THEN "pass" ELSE "fail"
ErlVerdict(i, c) ==
    IF ~Drawn(df[c][i], df_limits[ErlCol(c)][i]) THEN "nan"
    ELSE IF ErlPass(i, c) THEN "pass" ELSE "fail"

\* Diffuse ratio test: drawn for GHI > 50, K_t not masked.
DiffuseApplicable(i) == i \in kt_plot /\ ~IsNaN(df["K_t"][i])
DiffusePass(i) == StrictlyBelow(KtLine, df["zenith"][i], df["K_t"][i])
DiffuseVerdict(i) ==
    IF ~DiffuseApplicable(i) THEN "na"
    ELSE IF ~Drawn(df["zenith"][i], df["K_t"][i]) THEN "nan"
    ELSE IF DiffusePass(i) THEN "pass" ELSE "fail"

\* Closure-equation test: drawn for zenith < 93 and GHI > 50.
ClosureApplicable(i) == i \in closure_plot
ClosurePass(i) ==
    /\ StrictlyBelow(ClosureUpperLine, df["zenith"][i], df["sumsw_ratio"][i])
    /\ StrictlyAbove(ClosureLowerLine, df["zenith"][i], df["sumsw_ratio"][i])
ClosureVerdict(i) ==
    IF ~ClosureApplicable(i) THEN "na"
    ELSE IF ~Drawn(df["zenith"][i], df["sumsw_ratio"][i]) THEN "nan"
    ELSE IF ClosurePass(i) THEN "pass" ELSE "fail"

\* Cells that have run.
LimitsDone == pc # "limits"
AllDone == pc = "done"

----------------------------------------------------------------------------
(* Checking for missing data: df.asfreq('1min')                            *)
(*                                                                         *)
(* A timestamp is a number of ticks; a minute is TicksPerMinute ticks, so  *)
(* that a file can hold timestamps between the whole minutes.              *)

TicksPerMinute == 2

\* The latest timestamp of a file.
MaxTick == 5

\* The row the file holds at timestamp t.
RowAt(t) ==
    [ghi |-> Lit(60 + t, 1), dhi |-> Lit(30, 1), dni |-> Lit(100, 1),
     zenith |-> Lit(60, 1), sa |-> Lit(1361, 1)]

\* df = pd.read_csv(...): a file with at least one row, its timestamps
\* distinct; original_entries = df.shape[0].
InitAsfreq ==
    \E stamps \in (SUBSET (0..MaxTick)) \ {{}} :
        /\ pc = "asfreq"
        /\ index = stamps
        /\ df = [c \in Component \cup {"zenith"} |->
                    [t \in stamps |->
                        CASE c = "GHI" -> RowAt(t).ghi
                          [] c = "DHI" -> RowAt(t).dhi
                          [] c = "DNI" -> RowAt(t).dni
                          [] c = "zenith" -> RowAt(t).zenith]]
        /\ extra_radiation = [t \in stamps |-> RowAt(t).sa]
        /\ df_limits = NoFrame
        /\ limits_plot = {}
        /\ kt_plot = {}
        /\ closure_plot = {}
        /\ original_entries = Cardinality(stamps)
        /\ missing_rows_added = Fin(0)
        /\ coord = <<>>
        /\ coord_result = [kind |-> "pending"]
        /\ df_ref = <<>>
        /\ built = <<>>

Earliest(stamps) == CHOOSE t \in stamps : \A t2 \in stamps : t <= t2
Latest(stamps) == CHOOSE t \in stamps : \A t2 \in stamps : t >= t2

\* date_range(start, end, freq='1min'): start, start + 1 min, ... up to end.
DateRange(start, end) == {t \in start..end : (t - start) % TicksPerMinute = 0}

\* reindex with method='ffill': a new label takes the values of the last row
\* before it.
Reindex_Ffill(frame, old_index, new_index) ==
    [c \in DOMAIN frame |->
        [t \in new_index |->
            frame[c][Latest({t2 \in old_index : t2 <= t})]]]

\* frame.reindex(new_index): the rows of the labels kept, NaN in the others.
Reindex(frame, old_index, new_index) ==
    [c \in DOMAIN frame |->
        [t \in new_index |-> IF t \in old_index THEN frame[c][t] ELSE NaN]]

\* (df.shape[0]-original_entries)/df.shape[0]*100
ShareAdded(after, before) == FMul(FDiv(Lit(after - before, 1), Lit(after, 1)), Lit(100, 1))

\* df = df.asfreq('1min') and the share printed under it.
Asfreq ==
    /\ pc = "asfreq"
    /\ LET dti == DateRange(Earliest(index), Latest(index))
       IN  /\ index' = dti
           /\ df' = Reindex(df, index, dti)
           /\ extra_radiation' = [t \in dti |-> Lit(1361, 1)]
           /\ missing_rows_added' = ShareAdded(Cardinality(dti), original_entries)
    /\ pc' = "limits"
    /\ UNCHANGED <<df_limits, limits_plot, kt_plot, closure_plot, original_entries, coord_vars, time_vars>>

NextAsfreq == Asfreq \/ Next

\* The notebook from the file to the tests.
SpecAsfreq == InitAsfreq /\ [][NextAsfreq]_vars

----------------------------------------------------------------------------
(* ground_measurements.py: the coordinates of the station tables           *)
(*                                                                         *)
(* A string is a sequence of characters.  A float is carried as a decimal  *)
(* [neg, mant, exp] standing for (-1)^neg * mant * 10^exp, with mant free  *)
(* of trailing zeros, or as an infinity.                                   *)

Digit == {"0", "1", "2", "3", "4", "5", "6", "7", "8", "9"}

DigitVal(c) ==
    CASE c = "0" -> 0 [] c = "1" -> 1 [] c = "2" -> 2 [] c = "3" -> 3 [] c = "4" -> 4
      [] c = "5" -> 5 [] c = "6" -> 6 [] c = "7" -> 7 [] c = "8" -> 8 [] c = "9" -> 9

\* int() of a string of digits; the empty string counts 0.
RECURSIVE NatOf(_)
NatOf(t) ==
    IF t = <<>> THEN 0
    ELSE 10 * NatOf(SubSeq(t, 1, Len(t) - 1)) + DigitVal(t[Len(t)])

IsDigits(t) == \A k \in 1..Len(t) : t[k] \in Digit

\* The decimal with its mantissa freed of trailing zeros.
RECURSIVE Normal(_, _, _)
Normal(neg, mant, exp) ==
    IF mant = 0 THEN [kind |-> "float", neg |-> neg, mant |-> 0, exp |-> 0]
    ELSE IF mant % 10 = 0 THEN Normal(neg, mant \div 10, exp + 1)
    ELSE [kind |-> "float", neg |-> neg, mant |-> mant, exp |-> exp]

\* The largest decimal exponent of a finite float64 (1.8e308).
MaxExp10 == 308

RECURSIVE NumDigits(_)
NumDigits(n) == IF n < 10 THEN 1 ELSE 1 + NumDigits(n \div 10)

\* Rounding to float64: a value beyond the range is an infinity.
ToFloat(d) ==
    IF d.mant # 0 /\ d.exp + NumDigits(d.mant) - 1 > MaxExp10
    THEN [kind |-> "float", neg |-> d.neg, mant |-> "inf", exp |-> 0]
    ELSE d

ValueError == [kind |-> "ValueError"]
None == [kind |-> "None"]

\* str.replace(c, ''): every occurrence of the character is removed.
Remove(l, c) == SelectSeq(l, LAMBDA x : x # c)

\* c in l
Contains(l, c) == \E k \in 1..Len(l) : l[k] = c

\* The text with a leading sign taken off.
Unsigned(t) == IF t # <<>> /\ t[1] \in {"+", "-"} THEN SubSeq(t, 2, Len(t)) ELSE t
IsNegative(t) == t # <<>> /\ t[1] = "-"

\* float(t) for a text without spaces: [sign] digits [. digits] [E [sign]
\* digits], with at least one digit before the exponent; anything else raises
\* ValueError.
ParseFloat(t) ==
    LET es == {k \in 1..Len(t) : t[k] \in {"E", "e"}}
        e == IF es = {} THEN Len(t) + 1 ELSE CHOOSE k \in es : \A k2 \in es : k <= k2
        body == Unsigned(SubSeq(t, 1, e - 1))
        expo == SubSeq(t, e + 1, Len(t))
        dots == {k \in 1..Len(body) : body[k] = "."}
        dot == IF dots = {} THEN Len(body) + 1 ELSE CHOOSE k \in dots : TRUE
        whole == SubSeq(body, 1, dot - 1)
        frac == SubSeq(body, dot + 1, Len(body))
    IN  IF Cardinality(es) > 1 \/ Cardinality(dots) > 1 THEN ValueError
        ELSE IF ~IsDigits(whole) \/ ~IsDigits(frac) \/ whole \o frac = <<>> THEN ValueError
        ELSE IF es # {} /\ (Unsigned(expo) = <<>> \/ ~IsDigits(Unsigned(expo))) THEN ValueError
        ELSE LET x == IF IsNegative(expo) THEN 0 - NatOf(Unsigned(expo))
                      ELSE NatOf(Unsigned(expo))
             IN  ToFloat(Normal(IsNegative(SubSeq(t, 1, e - 1)),
                                NatOf(whole \o frac), x - Len(frac)))

\* cardinal_signs[c] * x
TimesSign(sign, x) == IF sign = -1 THEN [x EXCEPT !.neg = ~x.neg] ELSE x

\* The keys tried in alphabetical order.
cardinal_keys_Alphabetical == <<"E", "N", "S", "W">>

\* for c in cardinal_signs.keys(): a dict keeps the order of insertion.
cardinal_keys == <<"N", "S", "E", "W">>

\* The sign table with west taken as positive.
cardinal_signs_WestPositive == [c \in {"N", "S", "E", "W"} |-> IF c = "S" THEN -1 ELSE 1]

\* cardinal_signs = {'N': 1, 'S': -1, 'E': 1, 'W': -1}
cardinal_signs == [c \in {"N", "S", "E", "W"} |-> IF c \in {"N", "E"} THEN 1 ELSE -1]

\* def convert_latitude_longitude(l): the value returned, None when the loop
\* ends without a return, ValueError when float() raises.
convert_latitude_longitude(l) ==
    LET t == Remove(l, " ")
        found == {k \in 1..Len(cardinal_keys) : Contains(t, cardinal_keys[k])}
    IN  IF found = {} THEN None
        ELSE LET c == cardinal_keys[CHOOSE k \in found : \A k2 \in found : k <= k2]
                 x == ParseFloat(Remove(Remove(t, c), "°"))
             IN  IF x = ValueError THEN ValueError ELSE TimesSign(cardinal_signs[c], x)

\* The characters of the strings tried, and their greatest length.
Alphabet == {"0", "7", ".", "°", " ", "N", "S", "E", "W"}
MaxCoordLen == 4

CoordStrings == UNION {[1..n -> Alphabet] : n \in 0..MaxCoordLen}

\* A cell of a station table is about to be converted.
InitCoord ==
    /\ pc = "convert"
    /\ coord \in CoordStrings
    /\ coord_result = [kind |-> "pending"]
    /\ df_ref = <<>>
    /\ built = <<>>
    /\ index = {}
    /\ df = NoFrame
    /\ df_limits = NoFrame
    /\ extra_radiation = <<>>
    /\ limits_plot = {}
    /\ kt_plot = {}
    /\ closure_plot = {}
    /\ original_entries = 0
    /\ missing_rows_added = Fin(0)

\* .applymap(convert_latitude_longitude) on the cell.
Convert ==
    /\ pc = "convert"
    /\ coord_result' = convert_latitude_longitude(coord)
    /\ pc' = "converted"
    /\ UNCHANGED <<coord, qc_vars, asfreq_vars, time_vars>>

NextCoord == Convert

SpecCoord == InitCoord /\ [][NextCoord]_vars

----------------------------------------------------------------------------
(* manipulating_time_series.py: four ways to build the datetime index      *)
(*                                                                         *)
(* An instant is a number of seconds since 1970-01-01T00:00:00Z; a         *)
(* timezone-aware index value is [utc, offset], a naive one [wall].  The   *)
(* reference dataset has one row per minute of 2020 in Etc/GMT+8.          *)

SecondsPerDay == 86400

\* The epoch of 2020-01-01 00:00:00 in Etc/GMT+8, the first row asked for:
\* pd.Timestamp('20200101').
RefStart == 1577865600

\* The UTC offset of a timezone name, in seconds: Etc/GMT+8 is 8 hours
\* behind UTC.
TzOffset(tz) == CASE tz = "Etc/GMT+8" -> 0 - 8 * 3600 [] tz = "UTC" -> 0

\* Year, month and day of a day number (days since 1970-01-01), Gregorian.
CivilFromDays(days) ==
    LET z == days + 719468
        era == z \div 146097
        doe == z - era * 146097
        yoe == (doe - doe \div 1460 + doe \div 36524 - doe \div 146096) \div 365
        doy == doe - (365 * yoe + yoe \div 4 - yoe \div 100)
        mp == (5 * doy + 2) \div 153
        m == IF mp < 10 THEN mp + 3 ELSE mp - 9
    IN  [year |-> yoe + era * 400 + (IF m <= 2 THEN 1 ELSE 0),
         month |-> m,
         day |-> doy - (153 * mp + 2) \div 5 + 1]

\* The day number of a Gregorian date.
DaysFromCivil(year, month, day) ==
    LET y == IF month <= 2 THEN year - 1 ELSE year
        era == y \div 400
        yoe == y - era * 400
        mp == IF month > 2 THEN month - 3 ELSE month + 9
        doy == (153 * mp + 2) \div 5 + day - 1
        doe == yoe * 365 + yoe \div 4 - yoe \div 100 + doy
    IN  era * 146097 + doe - 719468

\* The fields of a wall-clock time given in seconds.
FieldsOf(wall) ==
    LET date == CivilFromDays(wall \div SecondsPerDay)
        sod == wall % SecondsPerDay
    IN  [year |-> date.year, month |-> date.month, day |-> date.day,
         hour |-> sod \div 3600, minute |-> (sod % 3600) \div 60, second |-> sod % 60]

\* The wall-clock seconds of year, month, day, hour, minute, second.
WallOf(f) ==
    DaysFromCivil(f.year, f.month, f.day) * SecondsPerDay
        + f.hour * 3600 + f.minute * 60 + f.second

\* The wall clock an aware index value shows.
WallClock(t) == t.utc + t.offset

DigitChar(d) ==
    CASE d = 0 -> "0" [] d = 1 -> "1" [] d = 2 -> "2" [] d = 3 -> "3" [] d = 4 -> "4"
      [] d = 5 -> "5" [] d = 6 -> "6" [] d = 7 -> "7" [] d = 8 -> "8" [] d = 9 -> "9"

\* n written with w digits, zero padded.
RECURSIVE Padded(_, _)
Padded(n, w) == IF w = 0 THEN <<>> ELSE Padded(n \div 10, w - 1) \o <<DigitChar(n % 10)>>

\* strftime('%Y-%m-%d')
FormatDate(f) == Padded(f.year, 4) \o <<"-">> \o Padded(f.month, 2) \o <<"-">> \o Padded(f.day, 2)

\* strftime('%H:%M:%S')
FormatTime(f) == Padded(f.hour, 2) \o <<":">> \o Padded(f.minute, 2) \o <<":">> \o Padded(f.second, 2)

\* strftime('%z'): sign, hours and minutes of the offset.
FormatOffset(offset) ==
    <<IF offset < 0 THEN "-" ELSE "+">>
        \o Padded(Abs(offset) \div 3600, 2) \o Padded((Abs(offset) % 3600) \div 60, 2)

\* The text at positions a..b read as a number; -1 if it is not all digits.
Field(text, a, b) ==
    IF b <= Len(text) /\ IsDigits(SubSeq(text, a, b)) THEN NatOf(SubSeq(text, a, b)) ELSE -1

\* The literal characters of a format are where the format has them.
HasLiterals(text, lits) == \A k \in DOMAIN lits : k <= Len(text) /\ text[k] = lits[k]

\* The date and time of a text whose date starts at position 1 and whose time
\* starts at position 12: '%Y-%m-%d?%H:%M:%S'.
ParseFields(text) ==
    [year |-> Field(text, 1, 4), month |-> Field(text, 6, 7), day |-> Field(text, 9, 10),
     hour |-> Field(text, 12, 13), minute |-> Field(text, 15, 16), second |-> Field(text, 18, 19)]

ValidFields(f) ==
    /\ f.year >= 0
    /\ f.month \in 1..12
    /\ f.day \in 1..31
    /\ f.hour \in 0..23
    /\ f.minute \in 0..59
    /\ f.second \in 0..59

\* '%z' read without its sign.
ParseOffset_Unsigned(text) == Field(text, 2, 3) * 3600 + Field(text, 4, 5) * 60

\* '%z' of a text such as -0800, in seconds.
ParseOffset(text) ==
    (IF text[1] = "-" THEN -1 ELSE 1) * (Field(text, 2, 3) * 3600 + Field(text, 4, 5) * 60)

NaT == [kind |-> "ValueError"]

\* pd.to_datetime(text, format='%Y-%m-%d %H:%M:%S%z'): an aware value with the
\* fixed offset of the text.
ToDatetimeWithOffset(text) ==
    LET f == ParseFields(text)
        z == SubSeq(text, 20, Len(text))
    IN  IF Len(text) # 24 \/ ~ValidFields(f) \/ z[1] \notin {"+", "-"}
           \/ ~IsDigits(SubSeq(z, 2, 5))
           \/ ~HasLiterals(text, (5 :> "-") @@ (8 :> "-") @@ (11 :> " ") @@ (14 :> ":") @@ (17 :> ":"))
        THEN NaT
        ELSE [utc |-> WallOf(f) - ParseOffset(z), offset |-> ParseOffset(z)]

\* pd.to_datetime(text, format='%Y-%m-%dT%H:%M:%S'): a naive value.
ToDatetimeNaive(text) ==
    LET f == ParseFields(text)
    IN  IF Len(text) # 19 \/ ~ValidFields(f)
           \/ ~HasLiterals(text, (5 :> "-") @@ (8 :> "-") @@ (11 :> "T") @@ (14 :> ":") @@ (17 :> ":"))
        THEN NaT
        ELSE [wall |-> WallOf(f)]

\* pd.to_datetime(df[['year', 'month', 'day', 'hour', 'minute']]): a naive
\* value assembled from the columns, its seconds 0.
ToDatetimeFromColumns(row) ==
    [wall |-> WallOf([year |-> row.year, month |-> row.month, day |-> row.day,
                      hour |-> row.hour, minute |-> row.minute, second |-> 0])]

\* pd.to_datetime(epoch, unit='s', utc=True)
ToDatetimeFromEpoch(epoch) == [utc |-> epoch, offset |-> TzOffset("UTC")]

\* tz_localize(tz): the naive wall clock is taken to be that of tz.
TzLocalize(t, tz) == [utc |-> t.wall - TzOffset(tz), offset |-> TzOffset(tz)]

\* tz_convert(tz): the same instant shown in tz.
TzConvert(t, tz) == [utc |-> t.utc, offset |-> TzOffset(tz)]

\* index.astype('int64')//1e9: the nanoseconds since the epoch, utc * 1e9
\* for an index of whole seconds, floor-divided by 1e9; the float64 result
\* holds the seconds exactly.
EpochOf(t) == t.utc

\* The rows tried: days of the year (1 January, 28 and 29 February, 1 March,
\* 31 December) and minutes of the day around midnight in Etc/GMT+8 and in UTC.
RefDays == {0, 58, 59, 60, 365}
RefMinutes == {0, 1, 59, 60, 479, 480, 959, 960, 1439}

RefIndex ==
    {[utc |-> RefStart + d * SecondsPerDay + m * 60, offset |-> TzOffset("Etc/GMT+8")] :
        d \in RefDays, m \in RefMinutes}

\* df_ref as read_midc_raw_data_from_nrel returns it: one row, its index in
\* Etc/GMT+8, its year column from the file.
InitTime ==
    /\ pc = "reference"
    /\ \E t \in RefIndex : df_ref = [index |-> t, year |-> FieldsOf(WallClock(t)).year]
    /\ built = <<>>
    /\ index = {}
    /\ df = NoFrame
    /\ df_limits = NoFrame
    /\ extra_radiation = <<>>
    /\ limits_plot = {}
    /\ kt_plot = {}
    /\ closure_plot = {}
    /\ original_entries = 0
    /\ missing_rows_added = Fin(0)
    /\ coord = <<>>
    /\ coord_result = [kind |-> "pending"]

\* The cell adding the temporal columns to df_ref and resetting its index.
AddTemporalColumns ==
    /\ pc = "reference"
    /\ LET t == df_ref.index
           f == FieldsOf(WallClock(t))
       IN  df_ref' = [year |-> df_ref.year, month |-> f.month, day |-> f.day,
                      hour |-> f.hour, minute |-> f.minute,
                      date |-> FormatDate(f), time |-> FormatTime(f),
                      timestamp |-> FormatDate(f) \o <<" ">> \o FormatTime(f)
                                        \o FormatOffset(t.offset),
                      epoch |-> EpochOf(t)]
    /\ pc' = "timestamp"
    /\ UNCHANGED <<built, qc_vars, asfreq_vars, coord_vars>>

\* 1.2: the index from the timestamp column.
FromTimestamp ==
    /\ pc = "timestamp"
    /\ built' = ("timestamp" :> ToDatetimeWithOffset(df_ref.timestamp))
    /\ pc' = "date_time"
    /\ UNCHANGED <<df_ref, qc_vars, asfreq_vars, coord_vars>>

\* 1.3: the index from the date and time columns, localized.
FromDateAndTime ==
    /\ pc = "date_time"
    /\ built' = built @@
        ("date_time" :> TzLocalize(ToDatetimeNaive(df_ref.date \o <<"T">> \o df_ref.time),
                                   "Etc/GMT+8"))
    /\ pc' = "columns"
    /\ UNCHANGED <<df_ref, qc_vars, asfreq_vars, coord_vars>>

\* 1.4: the index from the year, month, day, hour and minute columns,
\* localized.
FromColumns ==
    /\ pc = "columns"
    /\ built' = built @@ ("columns" :> TzLocalize(ToDatetimeFromColumns(df_ref), "Etc/GMT+8"))
    /\ pc' = "epoch"
    /\ UNCHANGED <<df_ref, qc_vars, asfreq_vars, coord_vars>>

\* 1.5: the index from the epoch column, converted to Etc/GMT+8.
FromEpoch ==
    /\ pc = "epoch"
    /\ built' = built @@ ("epoch" :> TzConvert(ToDatetimeFromEpoch(df_ref.epoch), "Etc/GMT+8"))
    /\ pc' = "indexed"
    /\ UNCHANGED <<df_ref, qc_vars, asfreq_vars, coord_vars>>

NextTime == AddTemporalColumns \/ FromTimestamp \/ FromDateAndTime \/ FromColumns \/ FromEpoch

SpecTime == InitTime /\ [][NextTime]_vars

----------------------------------------------------------------------------
(* Properties                                                              *)

Col(name, i) == df[name][i]
Lim(name, i) == df_limits[name][i]

\* The sample is in the declared domain: Sa >= 0 and 0 <= mu0 <= 1.
InDomain(i) ==
    /\ FGe(Col("extra_radiation", i), Fin(0))
    /\ FGe(Col("mu0", i), Fin(0))
    /\ FLe(Col("mu0", i), Fin(Scale))

\* C1: for Sa >= 0 and mu0 in [0, 1] the PPL upper limit is at least the ERL
\* upper limit, for GHI and for DHI.
C1_PplAtLeastErl ==
    LimitsDone =>
        \A i \in index :
            InDomain(i) =>
                /\ FGe(Lim("ppl_upper_GHI", i), Lim("erl_upper_GHI", i))
                /\ FGe(Lim("ppl_upper_DHI", i), Lim("erl_upper_DHI", i))

C1_Witness ==
    /\ LimitsDone
    /\ \E i \in index :
        /\ Col("extra_radiation", i) = Lit(1361, 1)
        /\ Col("mu0", i) = Fin(Scale)
        /\ FGt(Lim("ppl_upper_GHI", i), Lim("erl_upper_GHI", i))
        /\ FGt(Lim("ppl_upper_DHI", i), Lim("erl_upper_DHI", i))

C3_Mu0Clipped ==
    LimitsDone =>
        \A i \in index :
            /\ FGe(Col("mu0", i), Fin(0))
            /\ FLe(Col("mu0", i), Fin(Scale))
            /\ (Col("mu0", i) = Fin(0)) <=> FLe(FCosDeg(Col("zenith", i)), Fin(0))
            /\ FGt(FCosDeg(Col("zenith", i)), Fin(0)) =>
                    Col("mu0", i) = FCosDeg(Col("zenith", i))

C3_Witness ==
    /\ LimitsDone
    /\ \E i \in index :
        /\ Col("zenith", i) = Lit(200, 1)
        /\ FLt(FCosDeg(Col("zenith", i)), Fin(0))
        /\ Col("mu0", i) = Fin(0)

\* A night sample with all three components at zero.
NightZero(i) ==
    /\ FGe(Col("zenith", i), Lit(90, 1))
    /\ \A c \in Component : Col(c, i) = Fin(0)

AllLimitTestsPass(i) == \A c \in Component : PplPass(i, c) /\ ErlPass(i, c)

C5_NightLimits ==
    LimitsDone =>
        /\ \A c \in LimitCols : c \in DOMAIN df_limits /\ DOMAIN df_limits[c] = index
        /\ \A i \in index :
            Col("mu0", i) = Fin(0) =>
                /\ Lim("ppl_upper_GHI", i) = Lit(100, 1)
                /\ Lim("ppl_upper_DHI", i) = Lit(50, 1)
                /\ Lim("ppl_upper_DNI", i) = Col("extra_radiation", i)
                /\ Lim("erl_upper_GHI", i) = Lit(50, 1)
                /\ Lim("erl_upper_DHI", i) = Lit(30, 1)
                /\ Lim("erl_upper_DNI", i) = Lit(10, 1)

C5_Witness ==
    /\ pc = "diffuse"
    /\ \E i \in index :
        /\ i \notin limits_plot
        /\ Col("mu0", i) = Fin(0)
        /\ Col("extra_radiation", i) = Lit(1361, 1)
        /\ Lim("ppl_upper_DNI", i) = Lit(1361, 1)
        /\ Lim("erl_upper_DNI", i) = Lit(10, 1)

\* lo <= x <= hi and lo < x < hi on finite values, in units of 1/Scale.
WithinClosed(lo, x, hi) == IsFinite(x) /\ IsFinite(hi) /\ lo.v <= x.v /\ x.v <= hi.v
WithinOpen(lo, x, hi) == IsFinite(x) /\ IsFinite(hi) /\ lo.v < x.v /\ x.v < hi.v

C7_LowGhiNotApplicable ==
    AllDone =>
        \A i \in index :
            FLe(Col("GHI", i), Lit(50, 1)) =>
                DiffuseVerdict(i) = "na" /\ ClosureVerdict(i) = "na"

C7_Witness ==
    /\ AllDone
    /\ \E i \in index :
        /\ Col("GHI", i) = Lit(50, 1)
        /\ Col("zenith", i) = Lit(60, 1)
        /\ ~DiffusePass(i)
        /\ ~ClosurePass(i)
        /\ DiffuseVerdict(i) = "na"
        /\ ClosureVerdict(i) = "na"

\* The closure bounds as a step function of zenith.
StepLower(zenith) == IF FLe(zenith, Lit(75, 1)) THEN Lit(92, 100) ELSE Lit(85, 100)
StepUpper(zenith) == IF FLe(zenith, Lit(75, 1)) THEN Lit(108, 100) ELSE Lit(115, 100)

InClosureWindow(i) == FGt(Col("GHI", i), Lit(50, 1)) /\ FLt(Col("zenith", i), Lit(93, 1))

C9_Windows ==
    AllDone =>
        \A i \in index :
            FGt(Col("GHI", i), Lit(50, 1)) =>
                /\ FLe(Col("zenith", i), Lit(93, 1)) => DiffuseVerdict(i) # "na"
                /\ FLt(Col("zenith", i), Lit(93, 1)) => ClosureVerdict(i) # "na"
                /\ Col("zenith", i) = Lit(93, 1) => ClosureVerdict(i) = "na"
                /\ FGt(Col("zenith", i), Lit(93, 1)) =>
                        DiffuseVerdict(i) = "na" /\ ClosureVerdict(i) = "na"

C9_Witness ==
    /\ AllDone
    /\ \E i \in index :
        /\ FGt(Col("GHI", i), Lit(50, 1))
        /\ Col("zenith", i) = Lit(93, 1)
        /\ DiffuseVerdict(i) # "na"
        /\ ClosureVerdict(i) = "na"

\* C10: for ghi > 50 and zenith <= 75 the diffuse-ratio test passes exactly
\* when 0.92 < ghi / (dhi + dni*cos(zenith)) < 1.08.
C10_DiffuseRatioBand ==
    AllDone =>
        \A i \in index :
            (FGt(Col("GHI", i), Lit(50, 1)) /\ FLe(Col("zenith", i), Lit(75, 1))) =>
                ((DiffuseVerdict(i) = "pass") <=>
                    /\ FLt(Lit(92, 100), Col("sumsw_ratio", i))
                    /\ FLt(Col("sumsw_ratio", i), Lit(108, 100)))

\* The sun is at or below the horizon: zenith in [90, 180] degrees.
IsNight(i) == FGe(Col("zenith", i), Lit(90, 1)) /\ FLe(Col("zenith", i), Lit(180, 1))

\* C11: for every row with zenith >= 90, where mu0 is to be 0, and any
\* Sa >= 0, the ERL limit of DNI is computed without error, is not NaN and is
\* exactly 10.
C11_NightErlDniIsTen ==
    LimitsDone =>
        \A i \in index :
            (IsNight(i) /\ FGe(Col("extra_radiation", i), Fin(0))) =>
                /\ Col("mu0", i) = Fin(0)
                /\ ~IsNaN(Lim("erl_upper_DNI", i))
                /\ Lim("erl_upper_DNI", i) = Lit(10, 1)

\* The worked sample of the limit tests at overhead sun.
IsOverheadSample(i) ==
    /\ Col("extra_radiation", i) = Lit(1361, 1)
    /\ Col("zenith", i) = Fin(0)

\* C16: for Sa = 1361 and zenith = 0, mu0 is 1, ppl_upper_GHI is 2141.5 and
\* erl_upper_GHI is 1683.2; a GHI of 2000 passes the PPL test of GHI and fails
\* the ERL test of GHI.
C16_OverheadGhiLimits ==
    LimitsDone =>
        \A i \in index :
            IsOverheadSample(i) =>
                /\ Col("mu0", i) = Lit(1, 1)
                /\ Lim("ppl_upper_GHI", i) = Lit(21415, 10)
                /\ Lim("erl_upper_GHI", i) = Lit(16832, 10)
                /\ Col("GHI", i) = Lit(2000, 1) => (PplPass(i, "GHI") /\ ~ErlPass(i, "GHI"))

C16_Witness ==
    /\ pc = "plot_limits"
    /\ \E i \in index :
        /\ IsOverheadSample(i)
        /\ Col("GHI", i) = Lit(2000, 1)
        /\ Lim("ppl_upper_GHI", i) = Lit(21415, 10)
        /\ PplPass(i, "GHI")
        /\ ~ErlPass(i, "GHI")

\* C17: for Sa = 1361 and zenith = 90, mu0 is 0, ppl_upper_DNI is 1361 and
\* erl_upper_DNI is 10; a DNI of 50 fails the ERL test of DNI and passes the
\* PPL test of DNI.
C17_HorizonDniLimits ==
    LimitsDone =>
        \A i \in index :
            (Col("extra_radiation", i) = Lit(1361, 1) /\ Col("zenith", i) = Lit(90, 1)) =>
                /\ Col("mu0", i) = Fin(0)
                /\ Lim("ppl_upper_DNI", i) = Lit(1361, 1)
                /\ Lim("erl_upper_DNI", i) = Lit(10, 1)
                /\ Col("DNI", i) = Lit(50, 1) => (~ErlPass(i, "DNI") /\ PplPass(i, "DNI"))

\* The worked sample of the closure test.
IsClosureSample(i) ==
    /\ Col("zenith", i) = Lit(80, 1)
    /\ Col("GHI", i) = Lit(60, 1)
    /\ Col("DHI", i) = Lit(30, 1)
    /\ Col("DNI", i) = Lit(100, 1)

\* C18: for zenith = 80, GHI = 60, DHI = 30, DNI = 100 the closure test
\* applies, sumsw is 47.36 and sumsw_ratio 1.267 to the digits given, the
\* lines in force are 0.85 and 1.15, and the sample fails above 1.15.
C18_ClosureSampleFails ==
    AllDone =>
        \A i \in index :
            IsClosureSample(i) =>
                /\ ClosureApplicable(i)
                /\ WithinClosed(Lit(4735, 100), Col("sumsw", i), Lit(4737, 100))
                /\ WithinClosed(Lit(1266, 1000), Col("sumsw_ratio", i), Lit(1268, 1000))
                /\ LineYs(ClosureLowerLine, Col("zenith", i).v) = {Lit(85, 100).v}
                /\ LineYs(ClosureUpperLine, Col("zenith", i).v) = {Lit(115, 100).v}
                /\ FGt(Col("sumsw_ratio", i), Lit(115, 100))
                /\ ClosureVerdict(i) = "fail"

C18_Witness ==
    /\ AllDone
    /\ \E i \in index :
        /\ IsClosureSample(i)
        /\ i \in closure_plot
        /\ FGt(Col("sumsw_ratio", i), Lit(115, 100))
        /\ ClosureVerdict(i) = "fail"

\* A value a float64 column can hold: finite, an infinity or NaN.
IsFloat64(x) == x.k \in {"fin", "inf", "nan"}

\* The declared domain of the inputs: Sa >= 0 and zenith in [0, 180].
InDeclaredDomain(i) ==
    /\ FGe(Col("extra_radiation", i), Fin(0))
    /\ FGe(Col("zenith", i), Fin(0))
    /\ FLe(Col("zenith", i), Lit(180, 1))

\* C13: evaluation is total.  When the notebook is done every derived value
\* of a row in the declared domain is a float64 value, none stands for a
\* raised error, and every test has an outcome.  A zero GHI gives an infinite
\* or NaN K_t on a row the diffuse test does not apply to; a zero sumsw on a
\* row of the closure window gives an infinite ratio, outside the lines.
C13_Total ==
    AllDone =>
        \A i \in index :
            InDeclaredDomain(i) =>
                /\ \A c \in {"mu0", "K_t", "sumsw", "sumsw_ratio"} : IsFloat64(Col(c, i))
                /\ \A c \in LimitCols : IsFloat64(Lim(c, i))
                /\ \A c \in Component :
                    /\ PplVerdict(i, c) \in {"pass", "fail", "nan"}
                    /\ ErlVerdict(i, c) \in {"pass", "fail", "nan"}
                /\ DiffuseVerdict(i) \in {"pass", "fail", "na", "nan"}
                /\ ClosureVerdict(i) \in {"pass", "fail", "na", "nan"}
                /\ Col("GHI", i) = Fin(0) =>
                    /\ Col("K_t", i).k \in {"inf", "nan"}
                    /\ DiffuseVerdict(i) = "na"
                /\ (InClosureWindow(i) /\ Col("sumsw", i) = Fin(0)) =>
                    /\ Col("sumsw_ratio", i) = Inf(1)
                    /\ ClosureVerdict(i) = "fail"

C13_Witness ==
    /\ AllDone
    /\ \E i \in index :
        /\ InDeclaredDomain(i)
        /\ InClosureWindow(i)
        /\ Col("sumsw", i) = Fin(0)
        /\ Col("sumsw_ratio", i) = Inf(1)
        /\ ClosureVerdict(i) = "fail"

\* The tests, and the inputs of a row each one reads.
Tests == {"ppl_GHI", "ppl_DHI", "ppl_DNI", "erl_GHI", "erl_DHI", "erl_DNI", "diffuse", "closure"}

Verdict(i, t) ==
    CASE t = "ppl_GHI" -> PplVerdict(i, "GHI")
      [] t = "ppl_DHI" -> PplVerdict(i, "DHI")
      [] t = "ppl_DNI" -> PplVerdict(i, "DNI")
      [] t = "erl_GHI" -> ErlVerdict(i, "GHI")
      [] t = "erl_DHI" -> ErlVerdict(i, "DHI")
      [] t = "erl_DNI" -> ErlVerdict(i, "DNI")
      [] t = "diffuse" -> DiffuseVerdict(i)
      [] t = "closure" -> ClosureVerdict(i)

Uses(t) ==
    CASE t = "ppl_GHI" -> {"GHI", "zenith"}
      [] t = "ppl_DHI" -> {"DHI", "zenith"}
      [] t = "ppl_DNI" -> {"DNI"}
      [] t = "erl_GHI" -> {"GHI", "zenith"}
      [] t = "erl_DHI" -> {"DHI", "zenith"}
      [] t = "erl_DNI" -> {"DNI", "zenith"}
      [] t = "diffuse" -> {"GHI", "DHI", "zenith"}
      [] t = "closure" -> {"GHI", "DHI", "DNI", "zenith"}

InputCols == Component \cup {"zenith"}

HasMissing(i) == \E f \in InputCols : IsNaN(Col(f, i))

\* Rows i and j hold the same values in the inputs that test t reads, none
\* of them missing.
SameInputs(i, j, t) ==
    /\ Col("extra_radiation", i) = Col("extra_radiation", j)
    /\ \A f \in Uses(t) : ~IsNaN(Col(f, i)) /\ Col(f, i) = Col(f, j)

\* C12: when an input of a row is NaN, every test that reads that input has
\* no pass and no fail verdict for the row; a test that does not read it gives
\* the row the verdict it gives a row with the same values in its inputs; a
\* row without a missing input keeps finite limits and determinate verdicts.
C12_MissingIsIndeterminate ==
    AllDone =>
        /\ \A i \in index : \A t \in Tests :
            (\E f \in Uses(t) : IsNaN(Col(f, i))) => Verdict(i, t) \notin {"pass", "fail"}
        /\ \A i, j \in index : \A t \in Tests :
            SameInputs(i, j, t) => Verdict(i, t) = Verdict(j, t)
        /\ \A i \in index :
            ~HasMissing(i) =>
                /\ \A c \in LimitCols : IsFinite(Lim(c, i))
                /\ \A t \in Tests \ {"diffuse", "closure"} : Verdict(i, t) \in {"pass", "fail"}
                /\ \A t \in {"diffuse", "closure"} : Verdict(i, t) \in {"pass", "fail", "na"}

\* A frame evaluated to the end where the zenith of one row is missing: the
\* PPL test of DNI still has its verdict, the closure test has none.
C12_Witness ==
    /\ AllDone
    /\ \E i, j \in index :
        /\ IsNaN(Col("zenith", i))
        /\ ~HasMissing(j)
        /\ Verdict(i, "ppl_GHI") = "nan"
        /\ Verdict(i, "ppl_DNI") = "pass"
        /\ Verdict(i, "diffuse") = "nan"
        /\ Verdict(j, "closure") = "fail"

\* Every cell of the quality assessment has run at least once.
Evaluated == "sumsw_ratio" \in DOMAIN df

\* C14: once the cells have been evaluated, evaluating them again changes
\* nothing: mu0, the limits, K_t with its mask, sumsw, sumsw_ratio and the
\* plot selections, hence the verdicts, are those of the first evaluation.
C14_RerunChangesNothing ==
    [][Evaluated =>
        /\ df' = df
        /\ df_limits' = df_limits
        /\ limits_plot' = limits_plot
        /\ kt_plot' = kt_plot
        /\ closure_plot' = closure_plot]_vars

\* The second evaluation has reached the closure cell, on a row whose K_t
\* is masked.
C14_Witness ==
    /\ pc = "closure"
    /\ Evaluated
    /\ \E i \in index :
        /\ Col("zenith", i) = Lit(94, 1)
        /\ IsNaN(Col("K_t", i))
        /\ Col("sumsw_ratio", i).k = "fin"

\* The inputs of row i.
InputsOf(i) ==
    [ghi |-> Col("GHI", i), dhi |-> Col("DHI", i), dni |-> Col("DNI", i),
     zenith |-> Col("zenith", i), sa |-> extra_radiation[i]]

\* What the cells give a row with the inputs s, if rows are evaluated one by
\* one.
ResultsOf(s) ==
    [mu0 |-> Mu0(s.zenith),
     limits |-> [c \in LimitCols |-> LimitOf(c, s.sa, Mu0(s.zenith))],
     K_t |-> MaskKt(s.zenith, FDiv(s.dhi, s.ghi)),
     sumsw |-> Sumsw(s.dhi, s.dni, s.zenith),
     sumsw_ratio |-> FDiv(s.ghi, Sumsw(s.dhi, s.dni, s.zenith)),
     in_limits_plot |-> LimitsSelected(s.zenith),
     in_kt_plot |-> KtSelected(s.ghi),
     in_closure_plot |-> ClosureSelected(s.zenith, s.ghi)]

\* What the evaluated frame holds for row i.
RowResults(i) ==
    [mu0 |-> Col("mu0", i),
     limits |-> [c \in LimitCols |-> Lim(c, i)],
     K_t |-> Col("K_t", i),
     sumsw |-> Col("sumsw", i),
     sumsw_ratio |-> Col("sumsw_ratio", i),
     in_limits_plot |-> i \in limits_plot,
     in_kt_plot |-> i \in kt_plot,
     in_closure_plot |-> i \in closure_plot]

LetterAt(l) == {k \in 1..Len(l) : l[k] \in {"N", "S", "E", "W"}}
DegreeAt(l) == {k \in 1..Len(l) : l[k] = "°"}
NumberAt(l) == {k \in 1..Len(l) : l[k] \in Digit \cup {"."}}

Least(S) == CHOOSE k \in S : \A k2 \in S : k <= k2
Greatest(S) == CHOOSE k \in S : \A k2 \in S : k >= k2

\* The number written in l.
NumberOf(l) == SubSeq(l, Least(NumberAt(l)), Greatest(NumberAt(l)))

\* l is a non-negative decimal number, then possibly a degree sign, then one
\* cardinal letter, with spaces allowed before, between and after them.
IsCoordinate(l) ==
    /\ Cardinality(LetterAt(l)) = 1
    /\ Cardinality(DegreeAt(l)) <= 1
    /\ NumberAt(l) # {}
    /\ \A k \in 1..Len(l) : k \notin LetterAt(l) \cup DegreeAt(l) \cup NumberAt(l) => l[k] = " "
    /\ Greatest(NumberAt(l)) - Least(NumberAt(l)) + 1 = Cardinality(NumberAt(l))
    /\ \A k \in DegreeAt(l) : Greatest(NumberAt(l)) < k /\ k < Least(LetterAt(l))
    /\ Greatest(NumberAt(l)) < Least(LetterAt(l))
    /\ Cardinality({k \in 1..Len(NumberOf(l)) : NumberOf(l)[k] = "."}) <= 1
    /\ \E k \in 1..Len(NumberOf(l)) : NumberOf(l)[k] \in Digit

RECURSIVE TenTo(_)
TenTo(n) == IF n = 0 THEN 1 ELSE 10 * TenTo(n - 1)

\* The value of a written number: its whole part plus its fraction.
ValueOf(num) ==
    LET dots == {k \in 1..Len(num) : num[k] = "."}
        dot == IF dots = {} THEN Len(num) + 1 ELSE Least(dots)
        whole == SubSeq(num, 1, dot - 1)
        frac == SubSeq(num, dot + 1, Len(num))
    IN  Normal(FALSE, NatOf(whole) * TenTo(Len(frac)) + NatOf(frac), 0 - Len(frac))

Negated(x) == [x EXCEPT !.neg = ~x.neg]

\* C19: a number, an optional degree sign, optional spaces and one cardinal
\* letter convert to the number for N and E and to its negation for S and W;
\* the string without its spaces and degree sign converts to the same value.
C19_SignedCoordinate ==
    (pc = "converted" /\ IsCoordinate(coord)) =>
        /\ coord_result =
            IF coord[Least(LetterAt(coord))] \in {"N", "E"}
            THEN ValueOf(NumberOf(coord))
            ELSE Negated(ValueOf(NumberOf(coord)))
        /\ coord_result = convert_latitude_longitude(Remove(Remove(coord, " "), "°"))

C19_Witness ==
    /\ pc = "converted"
    /\ coord = <<"7", "°", " ", "W">>
    /\ IsCoordinate(coord)
    /\ coord_result = [kind |-> "float", neg |-> TRUE, mant |-> 7, exp |-> 0]

\* Every timestamp lies a whole number of minutes after the first.
OnGrid(stamps) == \A t \in stamps : (t - Earliest(stamps)) % TicksPerMinute = 0

\* The timestamps are one minute apart from first to last.
IsRegular(stamps) ==
    \A t \in stamps :
        \/ t = Latest(stamps)
        \/ /\ t + TicksPerMinute \in stamps
           /\ \A t2 \in stamps : ~(t < t2 /\ t2 < t + TicksPerMinute)

\* What asfreq does whatever the file: a regular series from the first
\* timestamp on, original rows of the grid kept, added rows missing.
AsfreqRegular ==
    /\ IsRegular(index')
    /\ Earliest(index') = Earliest(index)
    /\ Latest(index') <= Latest(index)
    /\ Latest(index) - Latest(index') < TicksPerMinute
    /\ \A t \in index' \cap index : \A c \in DOMAIN df : df'[c][t] = df[c][t]
    /\ \A t \in index' \ index : \A c \in Component : IsNaN(df'[c][t])

\* The series ends at the last original timestamp and the share of added
\* rows is in [0, 100).
AsfreqShare ==
    /\ Latest(index') = Latest(index)
    /\ FGe(missing_rows_added', Fin(0))
    /\ FLt(missing_rows_added', Lit(100, 1))

Sections == {"timestamp", "date_time", "columns", "epoch"}

C22_ErlPassImpliesPplPass ==
    LimitsDone =>
        \A i \in index :
            InDomain(i) =>
                \A c \in {"GHI", "DHI"} :
                    /\ ERL_LOWER > PPL_LOWER
                    /\ FLt(Lim(ErlCol(c), i), Lim(PplCol(c), i))
                    /\ ErlPass(i, c) => PplPass(i, c)

\* A row that passes both tests of GHI, and one value between the lower
\* bounds that passes the PPL test of DHI only.
C22_Witness ==
    /\ LimitsDone
    /\ \E i \in index :
        /\ InDomain(i)
        /\ ErlPass(i, "GHI")
        /\ PplPass(i, "GHI")
        /\ Col("DHI", i) = Lit(-2, 1)
        /\ ~ErlPass(i, "DHI")
        /\ PplPass(i, "DHI")

\* The columns a cell assigns.
WrittenBy(cell) ==
    CASE cell = "limits" -> {"extra_radiation", "mu0"}
      [] cell = "plot_limits" -> {}
      [] cell = "diffuse" -> {"K_t"}
      [] cell = "closure" -> {"sumsw", "sumsw_ratio"}
      [] OTHER -> {}

\* C23: no cell changes GHI, DHI, DNI or zenith of any row, nor the rows
\* themselves; a cell changes only the columns it assigns; the diffuse cell
\* sets K_t to NaN on the rows with zenith > 93 and to DHI/GHI on the others.
C23_InputsUnchanged ==
    [][/\ index' = index
       /\ \A c \in InputCols : df'[c] = df[c]
       /\ DOMAIN df' = DOMAIN df \cup WrittenBy(pc)
       /\ \A c \in DOMAIN df \ WrittenBy(pc) : df'[c] = df[c]
       /\ pc = "diffuse" =>
            \A i \in index :
                df'["K_t"][i] = IF FGt(df["zenith"][i], Lit(93, 1)) THEN NaN
                                ELSE FDiv(df["DHI"][i], df["GHI"][i])]_vars

\* A series evaluated to the end with a masked row and an unmasked one, the
\* inputs of both as read.
C23_Witness ==
    /\ AllDone
    /\ \E i, j \in index :
        /\ Col("zenith", i) = Lit(94, 1)
        /\ IsNaN(Col("K_t", i))
        /\ Col("GHI", i) = Lit(85, 1)
        /\ Col("DHI", i) = Lit(30, 1)
        /\ Col("zenith", j) = Lit(80, 1)
        /\ Col("K_t", j).k = "fin"
        /\ Col("sumsw_ratio", i).k = "fin"

\* C24: sumsw takes the cosine of zenith as it is.  On a row with
\* 90 < zenith < 93 and DNI > 0 the term DNI*cos(zenith) is negative and sumsw
\* is below DHI, while mu0 is 0; on a row with zenith <= 90 sumsw is
\* DHI + DNI*mu0.
C24_ClosureUsesUnclippedCosine ==
    AllDone =>
        \A i \in index :
            /\ (/\ FGt(Col("zenith", i), Lit(90, 1))
                /\ FLt(Col("zenith", i), Lit(93, 1))
                /\ FGt(Col("DNI", i), Fin(0))) =>
                    /\ FLt(FMul(Col("DNI", i), FCosDeg(Col("zenith", i))), Fin(0))
                    /\ FLt(Col("sumsw", i), Col("DHI", i))
                    /\ Col("mu0", i) = Fin(0)
            /\ FLe(Col("zenith", i), Lit(90, 1)) =>
                    Col("sumsw", i) = FAdd(Col("DHI", i), FMul(Col("DNI", i), Col("mu0", i)))

\* A row of the closure window past the horizon: zenith 92, DNI 100.
C24_Witness ==
    /\ AllDone
    /\ \E i \in index :
        /\ Col("zenith", i) = Lit(92, 1)
        /\ Col("DNI", i) = Lit(100, 1)
        /\ Col("mu0", i) = Fin(0)
        /\ FLt(Col("sumsw", i), Col("DHI", i))
        /\ i \in closure_plot

\* The cardinal letters in l, and the first of them in the order N, S, E, W.
CardinalsIn(l) == {c \in {"N", "S", "E", "W"} : Contains(l, c)}

FirstCardinal(l) ==
    IF Contains(l, "N") THEN "N"
    ELSE IF Contains(l, "S") THEN "S"
    ELSE IF Contains(l, "E") THEN "E"
    ELSE "W"

\* l without its spaces, its degree signs and the letter c.
Stripped(l, c) == Remove(Remove(Remove(l, " "), "°"), c)

\* C25: a string with none of N, S, E, W converts to None, without an error.
\* A string with more than one of them is converted with the first in the
\* order N, S, E, W: that letter alone is stripped and gives the sign, so
\* another letter left in the text makes float() raise, unless it is an E read
\* as an exponent.
C25_NoneOrFirstLetter ==
    pc = "converted" =>
        /\ CardinalsIn(coord) = {} => coord_result = None
        /\ Cardinality(CardinalsIn(coord)) > 1 =>
            LET c == FirstCardinal(coord)
                x == ParseFloat(Stripped(coord, c))
            IN  /\ coord_result # None
                /\ coord_result = IF x = ValueError THEN ValueError
                                  ELSE IF c \in {"S", "W"} THEN Negated(x) ELSE x
                /\ CardinalsIn(Stripped(coord, c)) = CardinalsIn(coord) \ {c}
                /\ CardinalsIn(coord) \ {c, "E"} # {} => coord_result = ValueError
                /\ coord_result # ValueError =>
                    /\ CardinalsIn(coord) = {c, "E"}
                    /\ coord_result.neg = (c = "S")

\* 7E0S holds S and E: S is stripped and gives the sign, E is read as an
\* exponent, the result is -7.0.
C25_Witness ==
    /\ pc = "converted"
    /\ coord = <<"7", "E", "0", "S">>
    /\ coord_result = [kind |-> "float", neg |-> TRUE, mant |-> 7, exp |-> 0]

====
